---- MODULE Spec2Model ----
(***************************************************************************)
(* Model of tools/preprocessor.js: runCommands scans every source for      *)
(* gen: directives, sorts the commands found by descending `from`,         *)
(* computes each command's replacement text and splices it into the        *)
(* owning source.                                                          *)
(*                                                                         *)
(* A text is a sequence of tokens.  A token is one character ("\n", " ",   *)
(* "#", a letter, a digit, "-") or one indivisible chunk of characters: a  *)
(* directive marker as the two regular expressions of runCommands match    *)
(* it, or a literal chunk that runCommands emits.  Offsets count tokens    *)
(* and are 0-based as in the source: substring(a, b) is SubSeq(t, a+1, b). *)
(***************************************************************************)
EXTENDS Integers, Sequences, FiniteSets, TLC

\* ---------------------------------------------------------------- bounds

\* Largest number of pieces that the sources of one run are made of.
MaxPieces == 3

\* Largest number of heading lines after the toc directive of a document of the
\* table-of-contents runs.
MaxHeadings == 3

\* Largest number of SEND calls and of protocol events on the WebSocket.
MaxCalls == 3
MaxEvents == 1

\* ---------------------------------------------------------------- tokens

NL == "\n"
SP == " "
Hash == "#"

StopTok == "<!-- gen:stop -->"
TocTok == "<!-- gen:toc -->"
InsFTok == "<!-- gen:insertjs(f) -->"
InsSTok == "<!-- gen:insertjs(s) -->"
InsGTok == "<!-- gen:insertjs(g) -->"
InsNoArgTok == "<!-- gen:insertjs -->"
FrobTok == "<!-- gen:frob -->"

\* The tokens that commandStartRegex matches.  Its name group [a-z-]+ also
\* matches "stop", so a closing marker met while looking for the next
\* directive opens a command named "stop".
StartToks == {TocTok, InsFTok, InsSTok, InsGTok, InsNoArgTok, FrobTok, StopTok}

\* start[1] of a match of commandStartRegex.
StartName(tok) ==
  CASE tok = TocTok -> "toc"
    [] tok \in {InsFTok, InsSTok, InsGTok, InsNoArgTok} -> "insertjs"
    [] tok = FrobTok -> "frob"
    [] tok = StopTok -> "stop"

\* args: start[2] without its parentheses, split on commas, each piece trimmed.
StartArgs(tok) ==
  CASE tok = InsFTok -> <<"f">>
    [] tok = InsSTok -> <<"s">>
    [] tok = InsGTok -> <<"g">>
    [] OTHER -> <<>>

\* Literal chunks of the text that an insertjs command produces.
FileTok(arg) == "File: [" \o arg \o "](" \o arg \o ")"
\* FenceJs and Fence stand for the three-backquote fences of line 43.
FenceJs == "[fence]js"
Fence == "[fence]"

\* ------------------------------------------------------------- the files

\* The files below PROJECT_DIR: "f" and "s" exist, every other path does not.
FileExists(p) == p \in {"f", "s"}

\* fs.readFileSync(filePath, 'utf-8')
FileContent(p) ==
  CASE p = "f" -> <<NL, Hash, SP, "a", NL>>
    [] p = "s" -> <<"x", StopTok>>

\* ------------------------------------------------------- string helpers

IsSpace(c) == c \in {SP, NL}

RECURSIVE TrimLeft(_)
TrimLeft(s) == IF s # <<>> /\ IsSpace(Head(s)) THEN TrimLeft(Tail(s)) ELSE s

RECURSIVE TrimRight(_)
TrimRight(s) ==
  IF s # <<>> /\ IsSpace(s[Len(s)]) THEN TrimRight(SubSeq(s, 1, Len(s) - 1)) ELSE s

\* String.prototype.trim
Trim(s) == TrimRight(TrimLeft(s))

\* text.substring(a, b) and text.substring(a), offsets 0-based.
Substring(s, a, b) == SubSeq(s, a + 1, b)
SubstringFrom(s, a) == SubSeq(s, a + 1, Len(s))

\* mdText.split('\n')
RECURSIVE SplitLines(_, _)
SplitLines(s, cur) ==
  IF s = <<>> THEN <<cur>>
  ELSE IF Head(s) = NL THEN <<cur>> \o SplitLines(Tail(s), <<>>)
  ELSE SplitLines(Tail(s), Append(cur, Head(s)))

\* .filter(line => line.startsWith('#'))
RECURSIVE SelectLines(_)
SelectLines(ls) ==
  IF ls = <<>> THEN <<>>
  ELSE IF Head(ls) # <<>> /\ Head(Head(ls)) = Hash
       THEN <<Head(ls)>> \o SelectLines(Tail(ls))
       ELSE SelectLines(Tail(ls))

\* ------------------------------------------- generateTableOfContents

\* mdText.split('\n').map(line => line.trim()).filter(line => line.startsWith('#'))
RECURSIVE TrimAll(_)
TrimAll(ls) == IF ls = <<>> THEN <<>> ELSE <<Trim(Head(ls))>> \o TrimAll(Tail(ls))

Titles(mdText) == SelectLines(TrimAll(SplitLines(mdText, <<>>)))

RECURSIVE CountHashes(_)
CountHashes(s) ==
  IF s # <<>> /\ Head(s) = Hash THEN 1 + CountHashes(Tail(s)) ELSE 0

\* title.match(/^(#+)\s+(.*)$/) is null unless whitespace follows the run of '#'.
TitleMatches(title) ==
  LET n == CountHashes(title) IN n < Len(title) /\ IsSpace(title[n + 1])

\* The groups of the match: nesting is the run of '#', name what follows the
\* whitespace after it.
TitleNesting(title) == CountHashes(title)
TitleName(title) == TrimLeft(SubstringFrom(title, CountHashes(title)))

LowerCase(c) ==
  CASE c = "A" -> "a"
    [] c = "B" -> "b"
    [] c = "C" -> "c"
    [] OTHER -> c

SlugKept ==
  {"a", "b", "c", "x", "y", "-", "0", "1", "2", "3", "4", "5", "6", "7", "8", "9"}

\* What one token of a name contributes to
\* name.trim().toLowerCase().replace(/\s/g, '-').replace(/[^-0-9a-zа-яё]/ig, '')
SlugChars(c) ==
  CASE IsSpace(c) -> <<"-">>
    [] LowerCase(c) \in SlugKept -> <<LowerCase(c)>>
    [] c = StopTok -> <<"-", "-", "-", "g", "e", "n", "s", "t", "o", "p", "-", "-", "-">>
    [] c = TocTok -> <<"-", "-", "-", "g", "e", "n", "t", "o", "c", "-", "-", "-">>
    [] c = FrobTok -> <<"-", "-", "-", "g", "e", "n", "f", "r", "o", "b", "-", "-", "-">>
    [] c = InsNoArgTok ->
         <<"-", "-", "-", "g", "e", "n", "i", "n", "s", "e", "r", "t", "j", "s", "-", "-", "-">>
    [] c \in {InsFTok, InsSTok, InsGTok} ->
         <<"-", "-", "-", "g", "e", "n", "i", "n", "s", "e", "r", "t", "j", "s">>
           \o StartArgs(c) \o <<"-", "-", "-">>
    [] c = FenceJs -> <<"j", "s">>
    [] c = FileTok("f") -> <<"f", "i", "l", "e", "-", "f", "f">>
    [] c = FileTok("s") -> <<"f", "i", "l", "e", "-", "s", "s">>
    [] OTHER -> <<>>

\* A variant of the first replace that turns a run of whitespace into one
\* hyphen (/\s+/g).
RECURSIVE SlugCollapse(_)
SlugCollapse(name) ==
  IF name = <<>> THEN <<>>
  ELSE IF IsSpace(Head(name)) /\ Len(name) > 1 /\ IsSpace(name[2])
       THEN SlugCollapse(Tail(name))
  ELSE SlugChars(Head(name)) \o SlugCollapse(Tail(name))

RECURSIVE Slug(_)
Slug(name) == IF name = <<>> THEN <<>> ELSE SlugChars(Head(name)) \o Slug(Tail(name))

DigitTok(n) ==
  CASE n = 0 -> "0" [] n = 1 -> "1" [] n = 2 -> "2" [] n = 3 -> "3" [] n = 4 -> "4"
    [] n = 5 -> "5" [] n = 6 -> "6" [] n = 7 -> "7" [] n = 8 -> "8" [] n = 9 -> "9"

\* The decimal digits of a counter, as string concatenation prints them.
RECURSIVE Digits(_)
Digits(n) ==
  IF n < 10 THEN <<DigitTok(n)>> ELSE Digits(n \div 10) \o <<DigitTok(n % 10)>>

\* Variants of the deduplication: none at all, and a counter that is incremented
\* after its use (counter++), so that the first suffix is -0.
NoDedup(id, ids, counter) == id

RECURSIVE DedupIdPostIncrement(_, _, _)
DedupIdPostIncrement(id, ids, counter) ==
  LET dedupId == IF counter = 0 THEN id ELSE id \o <<"-">> \o Digits(counter - 1)
  IN  IF dedupId \in ids THEN DedupIdPostIncrement(id, ids, counter + 1) ELSE dedupId

\* while (ids.has(dedupId)) dedupId = id + '-' + (++counter);
RECURSIVE DedupId(_, _, _)
DedupId(id, ids, counter) ==
  LET dedupId == IF counter = 0 THEN id ELSE id \o <<"-">> \o Digits(counter)
  IN  IF dedupId \in ids THEN DedupId(id, ids, counter + 1) ELSE dedupId

\* The loop over the titles: one entry {level, name, id} per title.
RECURSIVE TocEntries(_, _)
TocEntries(titles, ids) ==
  IF titles = <<>> THEN <<>>
  ELSE LET name == TitleName(Head(titles))
           dedupId == DedupId(Slug(Trim(name)), ids, 0)
       IN  <<[level |-> TitleNesting(Head(titles)), name |-> name, id |-> dedupId]>>
             \o TocEntries(Tail(titles), ids \cup {dedupId})

\* A variant without the minimum: the shallowest heading is taken to be a '#' one.
MinLevelOne(entries) == 1

\* Math.min(...levels); never used when there is no entry.
MinLevel(entries) ==
  IF entries = <<>> THEN 0
  ELSE CHOOSE m \in {entries[i].level : i \in 1..Len(entries)} :
         \A i \in 1..Len(entries) : m <= entries[i].level

RECURSIVE Spaces(_)
Spaces(n) == IF n = 0 THEN <<>> ELSE <<SP>> \o Spaces(n - 1)

\* `${padding}${prefix} [${entry.name}](#${entry.id})` with the level normalised.
EntryLine(entry, minLevel) ==
  LET level == entry.level - minLevel
  IN  Spaces(2 * level) \o <<IF level % 2 = 0 THEN "-" ELSE "*">> \o <<SP, "[">>
        \o entry.name \o <<"]", "(", Hash>> \o entry.id \o <<")">>

\* lines.join('\n')
RECURSIVE JoinLines(_)
JoinLines(ls) ==
  IF ls = <<>> THEN <<>>
  ELSE IF Len(ls) = 1 THEN Head(ls)
  ELSE Head(ls) \o <<NL>> \o JoinLines(Tail(ls))

\* generateTableOfContents(mdText): thrown when the destructuring of a null
\* match raises a TypeError, else the text returned.
GenerateTableOfContents(mdText) ==
  LET titles == Titles(mdText) IN
  IF \E i \in 1..Len(titles) : ~TitleMatches(titles[i])
  THEN [thrown |-> TRUE, text |-> <<>>]
  ELSE LET tocEntries == TocEntries(titles, {})
           minLevel == MinLevel(tocEntries)
       IN  [thrown |-> FALSE,
            text |-> <<NL>>
              \o JoinLines([i \in 1..Len(tocEntries) |-> EntryLine(tocEntries[i], minLevel)])
              \o <<NL>>]

\* ------------------------------------------------------ collaborators

\* Message.error(text) and Message.warning(text)
MessageError(text) == [type |-> "error", text |-> text]
MessageWarning(text) == [type |-> "warning", text |-> text]

\* source.projectPath()
ProjectPath(source) == "doc" \o ToString(source)

\* source.setText(newText): whether the text changes; the text is newText after.
SetTextChanges(oldText, newText) == oldText # newText

\* changedSources.add(source) on a Set kept in insertion order, with a variant
\* that keeps a list instead of a Set.
ListAdd(set, source) == Append(set, source)

SetAdd(set, source) ==
  IF \E k \in 1..Len(set) : set[k] = source THEN set ELSE Append(set, source)

\* ------------------------------------------------------------- the scan

\* regex.exec(text) with lastIndex = pos: the offset of the first token of
\* toks at or after pos, -1 when there is none.
RECURSIVE FindFrom(_, _, _)
FindFrom(text, pos, toks) ==
  IF pos >= Len(text) THEN -1
  ELSE IF text[pos + 1] \in toks THEN pos
  ELSE FindFrom(text, pos + 1, toks)

\* A variant of the while loop that ends the scan of the source at a marker left
\* open instead of reporting it.
RECURSIVE ScanTextLenient(_, _, _)
ScanTextLenient(text, source, lastIndex) ==
  LET start == FindFrom(text, lastIndex, StartToks) IN
  IF start = -1 THEN [ok |-> TRUE, commands |-> <<>>, open |-> ""]
  ELSE LET from == start + 1
           end == FindFrom(text, from, {StopTok})
       IN  IF end = -1 THEN [ok |-> TRUE, commands |-> <<>>, open |-> ""]
           ELSE LET command == [name |-> StartName(text[start + 1]),
                                args |-> StartArgs(text[start + 1]),
                                from |-> from,
                                to |-> end,
                                originalText |-> Substring(text, from, end),
                                source |-> source]
                    rest == ScanTextLenient(text, source, end + 1)
                IN  [ok |-> rest.ok,
                     commands |-> <<command>> \o rest.commands,
                     open |-> rest.open]

\* A variant of the while loop without line 31: the search for the next opening
\* marker resumes right after the opening marker instead of after the closing one.
RECURSIVE ScanTextNoResume(_, _, _)
ScanTextNoResume(text, source, lastIndex) ==
  LET start == FindFrom(text, lastIndex, StartToks) IN
  IF start = -1 THEN [ok |-> TRUE, commands |-> <<>>, open |-> ""]
  ELSE LET from == start + 1
           end == FindFrom(text, from, {StopTok})
       IN  IF end = -1 THEN [ok |-> FALSE, commands |-> <<>>, open |-> text[start + 1]]
           ELSE LET command == [name |-> StartName(text[start + 1]),
                                args |-> StartArgs(text[start + 1]),
                                from |-> from,
                                to |-> end,
                                originalText |-> Substring(text, from, end),
                                source |-> source]
                    rest == ScanTextNoResume(text, source, from)
                IN  [ok |-> rest.ok,
                     commands |-> <<command>> \o rest.commands,
                     open |-> rest.open]

\* The while loop of one source, from commandStartRegex.lastIndex = lastIndex:
\* the commands pushed and, when a 'gen:stop' is missing, the marker left open.
RECURSIVE ScanText(_, _, _)
ScanText(text, source, lastIndex) ==
  LET start == FindFrom(text, lastIndex, StartToks) IN
  IF start = -1 THEN [ok |-> TRUE, commands |-> <<>>, open |-> ""]
  ELSE LET from == start + 1
           end == FindFrom(text, from, {StopTok})
       IN  IF end = -1 THEN [ok |-> FALSE, commands |-> <<>>, open |-> text[start + 1]]
           ELSE LET command == [name |-> StartName(text[start + 1]),
                                args |-> StartArgs(text[start + 1]),
                                from |-> from,
                                to |-> end,
                                originalText |-> Substring(text, from, end),
                                source |-> source]
                    rest == ScanText(text, source, end + 1)
                IN  [ok |-> rest.ok,
                     commands |-> <<command>> \o rest.commands,
                     open |-> rest.open]

\* ------------------------------------------------------------- the sort

\* Insertion of c into a list sorted by descending from, behind its equals.
RECURSIVE InsertByFrom(_, _)
InsertByFrom(c, sorted) ==
  IF sorted = <<>> THEN <<c>>
  ELSE IF Head(sorted).from >= c.from THEN <<Head(sorted)>> \o InsertByFrom(c, Tail(sorted))
  ELSE <<c>> \o sorted

\* Variants of the sort: none at all, and ascending from (a.from - b.from).
NoSort(cs) == cs

RECURSIVE InsertByFromAsc(_, _)
InsertByFromAsc(c, sorted) ==
  IF sorted = <<>> THEN <<c>>
  ELSE IF Head(sorted).from <= c.from
       THEN <<Head(sorted)>> \o InsertByFromAsc(c, Tail(sorted))
  ELSE <<c>> \o sorted

RECURSIVE SortAscending(_)
SortAscending(cs) ==
  IF cs = <<>> THEN <<>>
  ELSE InsertByFromAsc(cs[Len(cs)], SortAscending(SubSeq(cs, 1, Len(cs) - 1)))

\* commands.sort((a, b) => b.from - a.from), a stable sort
RECURSIVE SortCommands(_)
SortCommands(cs) ==
  IF cs = <<>> THEN <<>>
  ELSE InsertByFrom(cs[Len(cs)], SortCommands(SubSeq(cs, 1, Len(cs) - 1)))

\* ---------------------------------------------------- command execution

\* A variant of lines 39-46 in which a command of an unknown name gets the empty
\* replacement text instead of null.
NewTextNeverNull(command, text) ==
  IF command.name = "insertjs"
  THEN IF command.args = <<>> \/ ~FileExists(command.args[1])
       THEN [thrown |-> TRUE, isNull |-> FALSE, text |-> <<>>]
       ELSE [thrown |-> FALSE, isNull |-> FALSE,
             text |-> <<NL, FileTok(command.args[1])>> \o <<NL, FenceJs, NL>>
                        \o Trim(FileContent(command.args[1])) \o <<NL, Fence, NL>>]
  ELSE IF command.name = "toc"
  THEN LET toc == GenerateTableOfContents(SubstringFrom(text, command.to))
       IN  [thrown |-> toc.thrown, isNull |-> FALSE, text |-> toc.text]
  ELSE [thrown |-> FALSE, isNull |-> FALSE, text |-> <<>>]

\* A variant of lines 39-46 in which the table of contents is built from the
\* text after the opening marker (substring(command.from)).
NewTextTocFromOpening(command, text) ==
  IF command.name = "insertjs"
  THEN IF command.args = <<>> \/ ~FileExists(command.args[1])
       THEN [thrown |-> TRUE, isNull |-> FALSE, text |-> <<>>]
       ELSE [thrown |-> FALSE, isNull |-> FALSE,
             text |-> <<NL, FileTok(command.args[1])>> \o <<NL, FenceJs, NL>>
                        \o Trim(FileContent(command.args[1])) \o <<NL, Fence, NL>>]
  ELSE IF command.name = "toc"
  THEN LET toc == GenerateTableOfContents(SubstringFrom(text, command.from))
       IN  [thrown |-> toc.thrown, isNull |-> FALSE, text |-> toc.text]
  ELSE [thrown |-> FALSE, isNull |-> TRUE, text |-> <<>>]

\* Lines 39-46: the replacement text of a command against the current text of
\* its source.  isNull: newText stays null.  thrown: an exception leaves
\* runCommands (path.resolve of an undefined argument, readFileSync of a
\* missing file, generateTableOfContents).
NewText(command, text) ==
  IF command.name = "insertjs"
  THEN IF command.args = <<>> \/ ~FileExists(command.args[1])
       THEN [thrown |-> TRUE, isNull |-> FALSE, text |-> <<>>]
       ELSE [thrown |-> FALSE, isNull |-> FALSE,
             text |-> <<NL, FileTok(command.args[1])>> \o <<NL, FenceJs, NL>>
                        \o Trim(FileContent(command.args[1])) \o <<NL, Fence, NL>>]
  ELSE IF command.name = "toc"
  THEN LET toc == GenerateTableOfContents(SubstringFrom(text, command.to))
       IN  [thrown |-> toc.thrown, isNull |-> FALSE, text |-> toc.text]
  ELSE [thrown |-> FALSE, isNull |-> TRUE, text |-> <<>>]

\* A variant of applyCommand whose tail starts one offset late.
ApplyCommandTailLate(command, editText, text) ==
  Substring(text, 0, command.from) \o editText \o SubstringFrom(text, command.to + 1)

\* applyCommand: the text handed to setText.
ApplyCommand(command, editText, text) ==
  Substring(text, 0, command.from) \o editText \o SubstringFrom(text, command.to)

\* ------------------------------------------------------------ the state

VARIABLES
  texts,          \* texts[i]: source i's current text, what sources[i].text() returns
  run,            \* 1 in the first call of runCommands, 2 in the call on its output
  pc,             \* "scan", "sort", "apply", "done" (returned) or "thrown"
  si,             \* the source that the scan loop is at
  commands,       \* the commands array
  ci,             \* the command that the apply loop is at
  messages,       \* the messages array
  changedSources, \* the changedSources set, in insertion order
  text0,          \* the texts when this call of runCommands started
  calls,          \* the setText calls of this call, in order
  sent,           \* SEND.js: sent[n] is the command of the n-th SEND call on ws
  listeners,      \* the calls whose 'message' listener is on ws, in order
  awaiting,       \* the calls whose command the browser has not answered yet
  resolved,       \* resolved[n]: what the promise of call n resolved with
  events          \* the protocol events that have arrived on ws

\* The state of runCommands and the state of the WebSocket of SEND.
genVars == <<texts, run, pc, si, commands, ci, messages, changedSources, text0, calls>>
wsVars == <<sent, listeners, awaiting, resolved, events>>

vars == <<genVars, wsVars>>

\* A WebSocket on which SEND has not been called.
NoCalls ==
  /\ sent = <<>>
  /\ listeners = <<>>
  /\ awaiting = {}
  /\ resolved = <<>>
  /\ events = 0

\* The pieces that the input documents are made of.
Pieces ==
  << <<Hash, SP, "a", NL>>,
     <<Hash, Hash, SP, "b", NL>>,
     <<Hash, "a", NL>>,
     <<TocTok, StopTok, NL>>,
     <<InsFTok, "y", StopTok, NL>>,
     <<InsSTok, StopTok, NL>>,
     <<InsGTok, StopTok, NL>>,
     <<InsNoArgTok, StopTok, NL>>,
     <<FrobTok, "y", StopTok, NL>>,
     <<TocTok>> >>

\* The documents made of the pieces ps, a new document starting after every
\* position of cuts.
RECURSIVE Documents(_, _, _, _)
Documents(ps, cuts, i, cur) ==
  IF i > Len(ps) THEN <<cur>>
  ELSE IF i \in cuts THEN <<cur \o Pieces[ps[i]]>> \o Documents(ps, cuts, i + 1, <<>>)
  ELSE Documents(ps, cuts, i + 1, cur \o Pieces[ps[i]])

\* The sources handed to runCommands: one to n documents of n pieces in all.
Init ==
  \E n \in 1..MaxPieces :
    \E ps \in [1..n -> 1..Len(Pieces)] :
      \E cuts \in SUBSET (1..(n - 1)) :
        /\ texts = Documents(ps, cuts, 1, <<>>)
        /\ text0 = texts
        /\ run = 1
        /\ pc = "scan"
        /\ si = 1
        /\ commands = <<>>
        /\ ci = 1
        /\ messages = <<>>
        /\ changedSources = <<>>
        /\ calls = <<>>
        /\ NoCalls

\* One iteration of the loop over the sources (lines 12-33).
ScanSource ==
  /\ pc = "scan"
  /\ LET scan == ScanText(texts[si], si, 0) IN
       /\ commands' = commands \o scan.commands
       /\ IF scan.ok
          THEN /\ messages' = messages
               /\ si' = si + 1
               /\ pc' = IF si = Len(texts) THEN "sort" ELSE "scan"
          ELSE /\ messages' =
                    Append(messages,
                           MessageError(<<"Failed to find 'gen:stop' for command", scan.open>>))
               /\ si' = si
               /\ pc' = "done"
  /\ UNCHANGED <<texts, run, ci, changedSources, text0, calls>>
  /\ UNCHANGED wsVars

\* Lines 35-37.
Sort ==
  /\ pc = "sort"
  /\ commands' = SortCommands(commands)
  /\ changedSources' = <<>>
  /\ ci' = 1
  /\ pc' = "apply"
  /\ UNCHANGED <<texts, run, si, messages, text0, calls>>
  /\ UNCHANGED wsVars

\* One iteration of the loop over the commands (lines 38-52).
Apply ==
  /\ pc = "apply"
  /\ ci <= Len(commands)
  /\ LET command == commands[ci]
         text == texts[command.source]
         new == NewText(command, text)
         newText == ApplyCommand(command, new.text, text)
         changed == SetTextChanges(text, newText)
     IN  IF new.thrown
         THEN /\ pc' = "thrown"
              /\ UNCHANGED <<texts, messages, changedSources, calls, ci>>
         ELSE IF new.isNull
         THEN /\ messages' =
                   Append(messages, MessageError(<<"Unknown command", command.name>>))
              /\ ci' = ci + 1
              /\ UNCHANGED <<texts, changedSources, calls, pc>>
         ELSE /\ texts' = [texts EXCEPT ![command.source] = newText]
              /\ calls' = Append(calls, [command |-> command, editText |-> new.text,
                                         before |-> text, changed |-> changed])
              /\ changedSources' =
                   IF changed THEN SetAdd(changedSources, command.source)
                   ELSE changedSources
              /\ ci' = ci + 1
              /\ UNCHANGED <<messages, pc>>
  /\ UNCHANGED <<run, si, commands, text0>>
  /\ UNCHANGED wsVars

\* Lines 53-55.
Return ==
  /\ pc = "apply"
  /\ ci > Len(commands)
  /\ messages' = messages \o
       [k \in 1..Len(changedSources) |->
          MessageWarning(<<"GEN: updated", ProjectPath(changedSources[k])>>)]
  /\ pc' = "done"
  /\ UNCHANGED <<texts, run, si, commands, ci, changedSources, text0, calls>>
  /\ UNCHANGED wsVars

\* The caller runs runCommands again on the documents that the first call
\* left, the files unchanged.
RunAgain ==
  /\ pc = "done"
  /\ run = 1
  /\ run' = 2
  /\ text0' = texts
  /\ pc' = "scan"
  /\ si' = 1
  /\ commands' = <<>>
  /\ ci' = 1
  /\ messages' = <<>>
  /\ changedSources' = <<>>
  /\ calls' = <<>>
  /\ UNCHANGED texts
  /\ UNCHANGED wsVars

Next == ScanSource \/ Sort \/ Apply \/ Return \/ RunAgain

Spec == Init /\ [][Next]_vars

\* ------------------------------------------- the table-of-contents runs

\* The heading lines that follow the toc directive: names that slug alike
\* ("a", at two depths), a name that is the deduplicated id of
\* another ("a-1"), a name with upper case, two adjacent spaces and a character
\* that the slug drops, and the two headings of the README's kind of outline.
HeadingLines ==
  << <<Hash, SP, "a", NL>>,
     <<Hash, Hash, Hash, SP, "a", NL>>,
     <<Hash, SP, "a", "-", "1", NL>>,
     <<Hash, Hash, SP, "A", SP, SP, "b", "!", NL>>,
     <<Hash, Hash, SP, "B", NL>>,
     <<Hash, Hash, Hash, SP, "C", NL>> >>

\* What stands before the toc directive, between its markers, and after the
\* heading lines: nothing at all; a heading line before and a heading-like line
\* between the markers; an insertjs directive of file "f" after the heading
\* lines, whose region holds a heading line.
TocFrames ==
  { [pre |-> <<>>, region |-> <<>>, post |-> <<>>],
    [pre |-> <<Hash, SP, "A", NL>>, region |-> <<NL, Hash, SP, "x", NL>>, post |-> <<>>],
    [pre |-> <<>>, region |-> <<>>,
     post |-> <<InsFTok, NL, Hash, Hash, SP, "y", NL, StopTok, NL>>] }

RECURSIVE HeadingText(_)
HeadingText(hs) ==
  IF hs = <<>> THEN <<>> ELSE HeadingLines[Head(hs)] \o HeadingText(Tail(hs))

\* runCommands on one document that holds a toc directive followed by up to
\* MaxHeadings heading lines.
InitToc ==
  \E frame \in TocFrames :
    \E n \in 0..MaxHeadings :
      \E hs \in [1..n -> 1..Len(HeadingLines)] :
        /\ texts = <<frame.pre \o <<TocTok>> \o frame.region \o <<StopTok, NL>>
                        \o HeadingText(hs) \o frame.post>>
        /\ text0 = texts
        /\ run = 1
        /\ pc = "scan"
        /\ si = 1
        /\ commands = <<>>
        /\ ci = 1
        /\ messages = <<>>
        /\ changedSources = <<>>
        /\ calls = <<>>
        /\ NoCalls

SpecToc == InitToc /\ [][Next]_vars

\* -------------------------------------------------------------- SEND.js

\* The ids and the sessions of the commands: sessions.js sends the ids 1 and 2
\* without a sessionId (the browser's session, "") and the id 1 with the
\* sessionId of the page.
CommandIds == {1, 2}
Sessions == {"", "page"}

\* What a promise that has not resolved holds.
Pending == [id |-> 0, sessionId |-> "", re |-> 0]

\* The response of the browser to the command of call n: its id and sessionId
\* are the command's; re names the call, which no listener reads.
Response(n) == [id |-> sent[n].id, sessionId |-> sent[n].sessionId, re |-> n]

\* The listener of call n, installed by SEND, on a message: response.id === command.id
ListenerMatches(n, response) == response.id = sent[n].id

\* runCommands is not running.
NoRun ==
  /\ texts = <<>>
  /\ text0 = <<>>
  /\ run = 1
  /\ pc = "off"
  /\ si = 1
  /\ commands = <<>>
  /\ ci = 1
  /\ messages = <<>>
  /\ changedSources = <<>>
  /\ calls = <<>>

InitSend == NoRun /\ NoCalls

\* SEND(ws, command): ws.send(JSON.stringify(command)) and the 'message'
\* listener of the new promise.  The caller keeps the ids of one session unique.
SendCommand ==
  /\ Len(sent) < MaxCalls
  /\ \E id \in CommandIds, sessionId \in Sessions :
       /\ \A n \in 1..Len(sent) : ~(sent[n].id = id /\ sent[n].sessionId = sessionId)
       /\ sent' = Append(sent, [id |-> id, sessionId |-> sessionId])
       /\ listeners' = Append(listeners, Len(sent) + 1)
       /\ awaiting' = awaiting \cup {Len(sent) + 1}
       /\ resolved' = Append(resolved, Pending)
  /\ UNCHANGED events
  /\ UNCHANGED genVars

\* The response to one of the commands not answered yet arrives: ws emits
\* 'message' to every listener; a listener whose command has the response's id
\* removes itself and resolves its promise with the response.
ReceiveResponse ==
  /\ \E c \in awaiting :
       LET response == Response(c) IN
       /\ awaiting' = awaiting \ {c}
       /\ resolved' =
            [n \in 1..Len(resolved) |->
               IF (\E i \in 1..Len(listeners) : listeners[i] = n)
                    /\ ListenerMatches(n, response)
               THEN response ELSE resolved[n]]
       /\ listeners' = SelectSeq(listeners, LAMBDA n : ~ListenerMatches(n, response))
  /\ UNCHANGED <<sent, events>>
  /\ UNCHANGED genVars

\* A protocol event, a message without an id, arrives: no listener matches it.
ReceiveEvent ==
  /\ events < MaxEvents
  /\ events' = events + 1
  /\ UNCHANGED <<sent, listeners, awaiting, resolved>>
  /\ UNCHANGED genVars

NextSend == SendCommand \/ ReceiveResponse \/ ReceiveEvent

SpecSend == InitSend /\ [][NextSend]_vars

\* ----------------------------------------------------------- properties

KnownNames == {"insertjs", "toc"}

\* runCommands has returned after scanning every source.
Completed == pc = "done" /\ si > Len(texts)

Sources == 1..Len(texts)

\* The commands of source d, as a set and by ascending from.
CommandsOf(d) == {commands[k] : k \in {j \in 1..Len(commands) : commands[j].source = d}}

RECURSIVE AscendingByFrom(_)
AscendingByFrom(cs) ==
  IF cs = {} THEN <<>>
  ELSE LET c == CHOOSE c \in cs : \A e \in cs : c.from <= e.from
       IN  <<c>> \o AscendingByFrom(cs \ {c})

CallsOf(c) == {k \in 1..Len(calls) : calls[k].command = c}
CallsOn(d) == {k \in 1..Len(calls) : calls[k].command.source = d}

\* The text that stands between the markers of c in the end: the replacement
\* text that was spliced for c, or the original text when none was.
RegionOf(c) ==
  IF CallsOf(c) = {} THEN c.originalText ELSE calls[CHOOSE k \in CallsOf(c) : TRUE].editText

\* text from offset pos on with the region of every command of cs (ascending,
\* all at or after pos) replaced, everything else kept.
RECURSIVE Rebuild(_, _, _)
Rebuild(text, cs, pos) ==
  IF cs = <<>> THEN SubstringFrom(text, pos)
  ELSE Substring(text, pos, Head(cs).from) \o RegionOf(Head(cs))
         \o Rebuild(text, Tail(cs), Head(cs).to)

\* The scan of source d's text at the start of the run, and its commands.
Scan0(d) == ScanText(text0[d], d, 0)
Directives(d) == {Scan0(d).commands[k] : k \in 1..Len(Scan0(d).commands)}

\* Every directive of document d is correctly paired, has a known name and was
\* executed without error.
AllExecuted(d) ==
  /\ Scan0(d).ok
  /\ \A c \in Directives(d) : c.name \in KnownNames /\ CallsOf(c) # {}

\* C1: when a run has ended, every document whose N directives are correctly
\* paired and were all executed without error is the original text with exactly
\* the N regions [from, to) replaced by the replacement texts computed for
\* them: one splice per directive, and everything outside the regions, the
\* markers included, unchanged and in place.  In a run that returns after the
\* scan, every directive of a known name was executed.
C1_FrameEffect ==
  /\ pc \in {"done", "thrown"} =>
       \A d \in Sources :
         AllExecuted(d) =>
           /\ Cardinality(CallsOn(d)) = Cardinality(Directives(d))
           /\ texts[d] = Rebuild(text0[d], AscendingByFrom(Directives(d)), 0)
  /\ Completed =>
       \A d \in Sources :
         \A c \in Directives(d) : c.name \in KnownNames => CallsOf(c) # {}

\* A first run has returned and a document with two or more directives, all
\* executed, was rewritten.
C1_Witness ==
  /\ Completed
  /\ run = 1
  /\ \E d \in Sources :
       /\ Cardinality(Directives(d)) >= 2
       /\ AllExecuted(d)
       /\ texts[d] # text0[d]

\* The offsets of command c fit text: the text over [from, to) is the command's
\* originalText and the closing marker starts at offset to.
OffsetsValid(c, text) ==
  /\ c.from <= c.to
  /\ c.to < Len(text)
  /\ Substring(text, c.from, c.to) = c.originalText
  /\ text[c.to + 1] = StopTok

\* C2: while commands are applied, the scan-time offsets of every command not
\* yet applied fit the current text of its document; every splice made was
\* made on a text its offsets fitted; and the splices of one document are made
\* in descending order of from, however the documents' commands interleave.
C2_OffsetsValidAtSplice ==
  /\ pc = "apply" =>
       \A k \in ci..Len(commands) : OffsetsValid(commands[k], texts[commands[k].source])
  /\ \A k \in 1..Len(calls) : OffsetsValid(calls[k].command, calls[k].before)
  /\ \A j, k \in 1..Len(calls) :
       (j < k /\ calls[j].command.source = calls[k].command.source)
         => calls[j].command.from > calls[k].command.from

\* The next command to apply belongs to a document that an earlier splice has
\* changed, and a splice of another document was made in between.
C2_Witness ==
  /\ pc = "apply"
  /\ run = 1
  /\ ci <= Len(commands)
  /\ Len(calls) >= 2
  /\ \E j, k \in 1..Len(calls) :
       /\ j < k
       /\ calls[j].command.source = commands[ci].source
       /\ calls[j].changed
       /\ calls[k].command.source # commands[ci].source
  /\ commands[ci].name \in KnownNames

IsWarning(m) == m.type = "warning"
IsError(m) == m.type = "error"

\* C3: in a second run over the documents that a first run produced, every
\* setText call reports no change, the documents stay identical and no
\* 'updated' warning is emitted.
C3_Idempotent ==
  run = 2 =>
    /\ texts = text0
    /\ \A k \in 1..Len(calls) : ~calls[k].changed
    /\ \A k \in 1..Len(messages) : ~IsWarning(messages[k])

\* C4: when the run has returned on a structural error in one document, the
\* commands of every other, well-formed document were executed: a known one was
\* applied through setText, an unknown one has its error diagnostic.
C4_StructuralErrorNonFatal ==
  (pc = "done" /\ si <= Len(texts)) =>
    \A d \in Sources \ {si} :
      Scan0(d).ok =>
        \A k \in 1..Len(Scan0(d).commands) :
          LET c == Scan0(d).commands[k] IN
            IF c.name \in KnownNames
            THEN \E j \in 1..Len(calls) : calls[j].command = c
            ELSE \E j \in 1..Len(messages) :
                   messages[j] = MessageError(<<"Unknown command", c.name>>)

\* The command names a file that does not exist.
MissingFile(c) == c.name = "insertjs" /\ c.args # <<>> /\ ~FileExists(c.args[1])

\* C5: the step that executes an insertjs command naming a missing file records
\* exactly one error diagnostic, leaves the document unmodified and goes on to
\* the next command.
C5_MissingFileIsDiagnosed ==
  [][(pc = "apply" /\ ci <= Len(commands) /\ MissingFile(commands[ci])) =>
       /\ pc' = "apply"
       /\ ci' = ci + 1
       /\ texts' = texts
       /\ Len(messages') = Len(messages) + 1
       /\ IsError(messages'[Len(messages')])]_vars

\* C6: runCommands never ends by raising an exception, whatever the documents;
\* stated for the runs that meet no insertjs command naming a missing file.
C6_NeverThrows ==
  (\A k \in 1..Len(commands) : ~MissingFile(commands[k])) => pc # "thrown"

\* C7 as claimed: in one run setText is invoked at most once for each document.
C7_SetTextOncePerDocument ==
  \A d \in Sources : Cardinality(CallsOn(d)) <= 1

\* The commands that the apply loop has gone through.
Processed == {k \in 1..Len(commands) : k < ci}

\* C7 as amended: in one run setText is invoked exactly once for each command
\* whose replacement text was computed (a command named insertjs or toc that the
\* apply loop has gone through) and for no other command, so that a document is
\* rewritten once per such command.
C7_SetTextOncePerCommand ==
  /\ \A j, k \in 1..Len(calls) : j # k => calls[j].command # calls[k].command
  /\ Len(calls) = Cardinality({k \in Processed : commands[k].name \in KnownNames})
  /\ \A k \in Processed :
       commands[k].name \in KnownNames <=> CallsOf(commands[k]) # {}

\* A run has returned after setText was called twice on one document.
C7_Witness ==
  /\ Completed
  /\ \E d \in Sources : Cardinality(CallsOn(d)) >= 2

Warnings(d) ==
  {k \in 1..Len(messages) :
     messages[k] = MessageWarning(<<"GEN: updated", ProjectPath(d)>>)}

ChangedCalls(d) == {k \in CallsOn(d) : calls[k].changed}

\* C8: the diagnostics returned hold exactly one 'updated' warning for each
\* document with at least one setText call that reported a change, none for any
\* other document; a document has such a call exactly if its text differs from
\* its text at the start of the run; and no warning is in the list before the
\* apply loop has ended, so every warning comes after every error.
C8_OneWarningPerChangedDocument ==
  /\ pc = "done" =>
       /\ \A d \in Sources :
            Cardinality(Warnings(d)) = IF ChangedCalls(d) # {} THEN 1 ELSE 0
       /\ Cardinality({k \in 1..Len(messages) : IsWarning(messages[k])})
            = Cardinality({d \in Sources : ChangedCalls(d) # {}})
       /\ \A j, k \in 1..Len(messages) :
            (IsWarning(messages[j]) /\ IsError(messages[k])) => k < j
  /\ pc # "done" => \A k \in 1..Len(messages) : ~IsWarning(messages[k])
  /\ \A d \in Sources : ChangedCalls(d) # {} <=> texts[d] # text0[d]

\* A run has returned with two setText calls on one document that both
\* reported a change.
C8_Witness ==
  /\ pc = "done"
  /\ \E d \in Sources : Cardinality(ChangedCalls(d)) >= 2 /\ Warnings(d) # {}

UnknownErrors(name) ==
  {k \in 1..Len(messages) : messages[k] = MessageError(<<"Unknown command", name>>)}

\* C9: a command of an unknown name that the apply loop goes through yields one
\* error diagnostic naming it per occurrence and no setText call; and when the
\* run has returned with such a command, every command of a known name, in the
\* same document or another, was applied once at its place: each document is
\* its original text with the regions of the applied commands replaced and the
\* text between the markers of the unknown command as it was.
C9_UnknownCommand ==
  /\ \A name \in {commands[k].name : k \in 1..Len(commands)} \ KnownNames :
       Cardinality(UnknownErrors(name))
         = Cardinality({k \in Processed : commands[k].name = name})
  /\ \A k \in 1..Len(calls) : calls[k].command.name \in KnownNames
  /\ (Completed /\ \E k \in 1..Len(commands) : commands[k].name \notin KnownNames) =>
       \A d \in Sources :
         /\ \A c \in CommandsOf(d) :
              Cardinality(CallsOf(c)) = IF c.name \in KnownNames THEN 1 ELSE 0
         /\ texts[d] = Rebuild(text0[d], AscendingByFrom(CommandsOf(d)), 0)

\* A first run has returned on a document that has a command of an unknown
\* name between two applied commands.
C9_Witness ==
  /\ Completed
  /\ run = 1
  /\ \E d \in Sources :
       \E b, u, a \in CommandsOf(d) :
         /\ b.from < u.from /\ u.from < a.from
         /\ u.name \notin KnownNames
         /\ CallsOf(b) # {} /\ CallsOf(a) # {}
         /\ UnknownErrors(u.name) # {}

OpenToks == StartToks \ {StopTok}

\* Document d has an opening marker with no closing marker after it.
Unterminated(d) ==
  \E i \in 1..Len(text0[d]) :
    /\ text0[d][i] \in OpenToks
    /\ \A j \in (i + 1)..Len(text0[d]) : text0[d][j] # StopTok

\* C10: setText is never called on a document that has an opening marker with
\* no closing marker after it, the commands found before that marker included;
\* the scan does not get past such a document, and the run that has returned
\* holds exactly one diagnostic, an error: when the scan stopped at the
\* document, the one naming the marker left open in it.
C10_UnterminatedDirective ==
  \A d \in Sources :
    Unterminated(d) =>
      /\ CallsOn(d) = {}
      /\ si <= d
      /\ pc \in {"scan", "done"}
      /\ pc = "done" =>
           /\ Len(messages) = 1
           /\ IsError(messages[1])
           /\ si = d =>
                messages[1] =
                  MessageError(<<"Failed to find 'gen:stop' for command", Scan0(d).open>>)

\* The run has returned on the error of a document, not the first, in which
\* commands were found before the marker left open.
C10_Witness ==
  /\ pc = "done"
  /\ si > 1
  /\ Unterminated(si)
  /\ \E k \in 1..Len(commands) :
       commands[k].source = si /\ commands[k].name \in KnownNames
  /\ Len(messages) = 1

\* The commands of source d in the order of the commands array.
CommandsInOrder(d) == SelectSeq(commands, LAMBDA c : c.source = d)

\* C11: for every document text, the commands that the scan extracts have
\* from <= to, come in increasing document position and have pairwise disjoint
\* [from, to): from is the end of an opening marker, to is the start of the first
\* closing marker at or after from, the search for the next opening marker
\* resumes right after that closing marker (the next command opens at the first
\* opening marker from there), and an opening marker that lies inside a region
\* yields no command.  The commands array holds exactly these commands for
\* every source that the scan loop has gone through.
C11_ScanIntervals ==
  \A d \in 1..Len(text0) :
    LET text == text0[d]
        cs == Scan0(d).commands
    IN  /\ \A k \in 1..Len(cs) :
             LET resume == IF k = 1 THEN 0 ELSE cs[k - 1].to + 1 IN
             /\ cs[k].from <= cs[k].to
             /\ cs[k].from >= 1 /\ text[cs[k].from] \in StartToks
             /\ cs[k].to < Len(text) /\ text[cs[k].to + 1] = StopTok
             /\ \A i \in cs[k].from..(cs[k].to - 1) : text[i + 1] # StopTok
             /\ resume <= cs[k].from - 1
             /\ \A i \in resume..(cs[k].from - 2) : text[i + 1] \notin StartToks
             /\ \A i \in cs[k].from..(cs[k].to - 1) :
                  \A j \in 1..Len(cs) : cs[j].from # i + 1
        /\ \A j, k \in 1..Len(cs) : j < k => cs[j].to < cs[k].from
        /\ (pc \in {"scan", "sort"} /\ d < si) => CommandsInOrder(d) = cs

\* The scan loop has ended and found two commands in a document whose first
\* region holds another opening marker.
C11_Witness ==
  /\ pc = "sort"
  /\ \E d \in Sources :
       LET cs == Scan0(d).commands IN
       /\ Len(cs) >= 2
       /\ CommandsInOrder(d) = cs
       /\ \E i \in cs[1].from..(cs[1].to - 1) : text0[d][i + 1] \in OpenToks

\* ------------------------------------- properties of the table of contents

\* The setText calls made for toc commands.
TocCalls == {k \in 1..Len(calls) : calls[k].command.name = "toc"}

\* The entry lines of a generated table of contents.
OutLines(editText) == SelectSeq(SplitLines(editText, <<>>), LAMBDA l : l # <<>>)

\* The parts of an entry line `${padding}${prefix} [${name}](#${id})`, for names
\* and ids without brackets and parentheses.
LineIndent(l) == Len(l) - Len(TrimLeft(l))
LineOpen(l) == CHOOSE p \in 1..Len(l) : l[p] = "[" /\ \A q \in 1..(p - 1) : l[q] # "["
LineClose(l) == CHOOSE p \in 1..Len(l) : l[p] = "]" /\ \A q \in 1..(p - 1) : l[q] # "]"
LineName(l) == SubSeq(l, LineOpen(l) + 1, LineClose(l) - 1)
LineId(l) == SubSeq(l, LineClose(l) + 3, Len(l) - 1)

\* The names and the ids of the entries of the table of contents of call k.
OutNames(k) ==
  LET ls == OutLines(calls[k].editText) IN [i \in 1..Len(ls) |-> LineName(ls[i])]
OutIds(k) ==
  LET ls == OutLines(calls[k].editText) IN [i \in 1..Len(ls) |-> LineId(ls[i])]

\* C12: the ids of the entries of one generated table of contents are pairwise
\* distinct, whatever the heading lines are: also when several headings have the
\* same slug and when a heading's own slug is an id that deduplication has
\* produced before (headings 'a', 'a', 'a-1').
C12_IdsDistinct ==
  \A k \in TocCalls :
    LET ids == OutIds(k) IN \A i, j \in 1..Len(ids) : i # j => ids[i] # ids[j]

\* A table of contents was generated for the headings 'a', 'a', 'a-1'.
C12_Witness ==
  \E k \in TocCalls :
    OutNames(k) = << <<"a">>, <<"a">>, <<"a", "-", "1">> >>

\* The slugs that the names of the entries of call k normalize to, and the rank
\* of entry i among the entries of its slug.
OutSlugs(k) ==
  LET names == OutNames(k) IN [i \in 1..Len(names) |-> Slug(Trim(names[i]))]
SlugRank(slugs, i) == Cardinality({j \in 1..i : slugs[j] = slugs[i]})

\* s, s-1, s-2, ...
Suffixed(slug, n) == IF n = 0 THEN slug ELSE slug \o <<"-">> \o Digits(n)

\* C13 as stated: when several headings of one table of contents normalize to
\* the same slug s, the k-th of them gets the id s-(k-1) (the first s, the
\* second s-1, the third s-2), for every sequence of headings.
C13_KthGetsSuffix ==
  \A k \in TocCalls :
    LET ids == OutIds(k)
        slugs == OutSlugs(k)
    IN  \A i \in 1..Len(ids) :
          (\E j \in 1..Len(ids) : j # i /\ slugs[j] = slugs[i])
            => ids[i] = Suffixed(slugs[i], SlugRank(slugs, i) - 1)

\* C13 amended: every heading of slug s gets the first of s, s-1, s-2, ... that
\* is not the id of an earlier entry of the same table of contents; that is
\* s-(k-1) for the k-th heading of slug s whenever no earlier heading of another
\* slug has got an id of the form s or s-n.
C13_FirstUnusedSuffix ==
  \A k \in TocCalls :
    LET ids == OutIds(k)
        slugs == OutSlugs(k)
    IN  \A i \in 1..Len(ids) :
          LET earlier == {ids[j] : j \in 1..(i - 1)} IN
          /\ \E n \in 0..(i - 1) :
               /\ ids[i] = Suffixed(slugs[i], n)
               /\ ids[i] \notin earlier
               /\ \A m \in 0..(n - 1) : Suffixed(slugs[i], m) \in earlier
          /\ (\A j \in 1..(i - 1) :
                slugs[j] # slugs[i] => \A n \in 0..i : ids[j] # Suffixed(slugs[i], n))
               => ids[i] = Suffixed(slugs[i], SlugRank(slugs, i) - 1)

\* A table of contents was generated for the headings 'a', 'a-1', 'a': the
\* second heading of slug a gets the id a-2.
C13_Witness ==
  \E k \in TocCalls :
    /\ OutNames(k) = << <<"a">>, <<"a", "-", "1">>, <<"a">> >>
    /\ OutIds(k) = << <<"a">>, <<"a", "-", "1">>, <<"a", "-", "2">> >>

\* The heading lines of a document that start after offset `to`: the lines
\* after the first line break at or after `to`, trimmed, that begin with '#'.
HeadingsAfter(text, to) ==
  LET p == FindFrom(text, to, {NL})
      lines == IF p = -1 THEN <<>> ELSE SplitLines(SubstringFrom(text, p + 1), <<>>)
  IN  SelectSeq([i \in 1..Len(lines) |-> Trim(lines[i])],
                LAMBDA l : l # <<>> /\ l[1] = Hash)

\* The number of '#' that a heading line starts with, and what follows them and
\* the whitespace after them.
LeadingHashes(l) ==
  CHOOSE n \in 0..Len(l) :
    (\A i \in 1..n : l[i] = Hash) /\ (n = Len(l) \/ l[n + 1] # Hash)
HeadingName(l) == TrimLeft(SubSeq(l, LeadingHashes(l) + 1, Len(l)))

\* C14: the replacement text of a toc directive lists, in document order and
\* one entry per heading line, exactly the heading lines that stand after the
\* directive's closing marker in its document, which are the heading lines
\* after that marker in the document as the run leaves it: neither a heading
\* before the directive nor a heading-like line of its own region is listed.
C14_TocListsHeadingsAfter ==
  \A k \in TocCalls :
    LET command == calls[k].command
        tail == SubstringFrom(calls[k].before, command.to)
        text == texts[command.source]
        heads == HeadingsAfter(calls[k].before, command.to)
        names == OutNames(k)
    IN  /\ Len(names) = Len(heads)
        /\ \A i \in 1..Len(heads) : names[i] = HeadingName(heads[i])
        /\ Len(tail) <= Len(text)
        /\ SubstringFrom(text, Len(text) - Len(tail)) = tail
        /\ HeadingsAfter(text, Len(text) - Len(tail)) = heads

\* '# A', a toc directive whose region holds the heading-like line '# x', then
\* '## B' and '### C': the list has the two entries #b, at level 0, and #c, one
\* level under it.
C14_Witness ==
  \E k \in TocCalls :
    /\ calls[k].before =
         <<Hash, SP, "A", NL, TocTok, NL, Hash, SP, "x", NL, StopTok, NL,
           Hash, Hash, SP, "B", NL, Hash, Hash, Hash, SP, "C", NL>>
    /\ calls[k].editText =
         <<NL, "-", SP, "[", "B", "]", "(", Hash, "b", ")", NL,
           SP, SP, "*", SP, "[", "C", "]", "(", Hash, "c", ")", NL>>

\* C15: in every generated table of contents with at least one heading, the
\* level of each entry (half the width of its padding) is the number of '#'
\* that its heading line starts with minus the least such number over the
\* headings listed: no level is negative, some entry has level 0, and headings
\* of one depth all get level 0.
C15_LevelsNormalised ==
  \A k \in TocCalls :
    LET ls == OutLines(calls[k].editText)
        heads == HeadingsAfter(calls[k].before, calls[k].command.to)
        depth == [i \in 1..Len(heads) |-> LeadingHashes(heads[i])]
    IN  ls # <<>> =>
          /\ Len(ls) = Len(heads)
          /\ \E m \in 1..Len(heads) :
               /\ \A i \in 1..Len(heads) : depth[m] <= depth[i]
               /\ \A i \in 1..Len(ls) : LineIndent(ls[i]) = 2 * (depth[i] - depth[m])
          /\ \E i \in 1..Len(ls) : LineIndent(ls[i]) = 0
          /\ (\A i, j \in 1..Len(heads) : depth[i] = depth[j])
               => \A i \in 1..Len(ls) : LineIndent(ls[i]) = 0

\* A table of contents was generated for a scope without a '#' heading that
\* holds headings of two depths: the shallowest is at level 0, a deeper one at
\* level 1.
C15_Witness ==
  \E k \in TocCalls :
    LET ls == OutLines(calls[k].editText)
        heads == HeadingsAfter(calls[k].before, calls[k].command.to)
    IN  /\ Len(heads) >= 2
        /\ \A i \in 1..Len(heads) : LeadingHashes(heads[i]) >= 2
        /\ \E i \in 1..Len(ls) : LineIndent(ls[i]) = 2
        /\ \E i \in 1..Len(ls) : LineIndent(ls[i]) = 0

\* The anchor of a name as the claim C17 derives it: lower case, every maximal
\* run of whitespace one hyphen, every character that is not a hyphen, a digit
\* or a letter deleted.  afterSpace: the character before is whitespace.
RECURSIVE AnchorByRuns(_, _)
AnchorByRuns(name, afterSpace) ==
  IF name = <<>> THEN <<>>
  ELSE IF IsSpace(Head(name))
       THEN (IF afterSpace THEN <<>> ELSE <<"-">>) \o AnchorByRuns(Tail(name), TRUE)
  ELSE (IF LowerCase(Head(name)) \in SlugKept THEN <<LowerCase(Head(name))>> ELSE <<>>)
         \o AnchorByRuns(Tail(name), FALSE)

\* The same with one hyphen for every whitespace character.
RECURSIVE AnchorByChars(_)
AnchorByChars(name) ==
  IF name = <<>> THEN <<>>
  ELSE (IF IsSpace(Head(name)) THEN <<"-">>
        ELSE IF LowerCase(Head(name)) \in SlugKept THEN <<LowerCase(Head(name))>>
        ELSE <<>>) \o AnchorByChars(Tail(name))

\* C17 as stated: the id of an entry is the lower-cased trimmed name of its
\* heading with every maximal run of whitespace replaced by exactly one hyphen
\* and every other character that is not a hyphen, a digit or a letter deleted
\* (followed by the suffix of deduplication, if any): two or more adjacent
\* whitespace characters between two words give one hyphen.
C17_RunToOneHyphen ==
  \A k \in TocCalls :
    LET ids == OutIds(k)
        names == OutNames(k)
    IN  \A i \in 1..Len(ids) :
          \E n \in 0..i : ids[i] = Suffixed(AnchorByRuns(Trim(names[i]), FALSE), n)

\* C17 amended: the id of an entry is the lower-cased trimmed name of its
\* heading with every whitespace character replaced by one hyphen and every
\* other character that is not a hyphen, a digit or a letter deleted (followed
\* by the suffix of deduplication, if any): n adjacent whitespace characters
\* between two words give n hyphens.
C17_HyphenPerWhitespace ==
  \A k \in TocCalls :
    LET ids == OutIds(k)
        names == OutNames(k)
    IN  \A i \in 1..Len(ids) :
          \E n \in 0..i : ids[i] = Suffixed(AnchorByChars(Trim(names[i])), n)

\* A table of contents lists the heading 'A  b!' (two spaces): its id is a--b.
C17_Witness ==
  \E k \in TocCalls :
    \E i \in 1..Len(OutIds(k)) :
      /\ OutNames(k)[i] = <<"A", SP, SP, "b", "!">>
      /\ OutIds(k)[i] = <<"a", "-", "-", "b">>

\* The directives of call k's document that open after the command of call k,
\* and the document's text once exactly their regions have been spliced.
LaterDirectives(k) ==
  {e \in Directives(calls[k].command.source) : e.from > calls[k].command.from}
TextWithLaterSpliced(k) ==
  LET command == calls[k].command
      text == text0[command.source]
  IN  Substring(text, 0, command.to)
        \o Rebuild(text, AscendingByFrom(LaterDirectives(k)), command.to)

\* C18: the replacement text of a toc command is computed when the command is
\* applied, against the current text of its document and not against the text
\* that was scanned: every directive of a known name that follows it in the
\* document has been spliced by then, the current text is the scanned text with
\* exactly those regions replaced, and the table of contents is the one of the
\* current text after offset `to`, its entries being that text's heading lines.
C18_TocFromCurrentText ==
  \A k \in TocCalls :
    LET command == calls[k].command
        current == TextWithLaterSpliced(k)
        heads == HeadingsAfter(current, command.to)
        names == OutNames(k)
    IN  /\ \A e \in LaterDirectives(k) :
             e.name \in KnownNames => \E j \in CallsOf(e) : j < k
        /\ calls[k].before = current
        /\ calls[k].editText =
             GenerateTableOfContents(SubstringFrom(current, command.to)).text
        /\ Len(names) = Len(heads)
        /\ \A i \in 1..Len(heads) : names[i] = HeadingName(heads[i])

\* A toc directive is followed by an insertjs directive whose region held the
\* heading line '## y' and whose file holds the line '# a': the table of
\* contents lists 'a', which no heading line of the scanned text after the toc
\* directive is named, and does not list 'y'.
C18_Witness ==
  \E k \in TocCalls :
    LET command == calls[k].command
        scanned == HeadingsAfter(text0[command.source], command.to)
        names == OutNames(k)
    IN  /\ \E e \in LaterDirectives(k) : e.name = "insertjs" /\ CallsOf(e) # {}
        /\ \E i \in 1..Len(scanned) : HeadingName(scanned[i]) = <<"y">>
        /\ \A i \in 1..Len(scanned) : HeadingName(scanned[i]) # <<"a">>
        /\ \E i \in 1..Len(names) : names[i] = <<"a">>
        /\ \A i \in 1..Len(names) : names[i] # <<"y">>
        /\ run = 1

\* ---------------------------------------------------- properties of SEND

\* C16: whatever the interleaving of SEND calls and incoming messages on one
\* WebSocket, the promise that SEND(ws, command) returned resolves only with
\* the response to that very command, the message of the same id in the same
\* session, also when two pending commands of different sessions have the same
\* id.
C16_ResolvesWithOwnResponse ==
  \A n \in 1..Len(resolved) :
    resolved[n] # Pending =>
      /\ resolved[n].re = n
      /\ resolved[n].id = sent[n].id
      /\ resolved[n].sessionId = sent[n].sessionId

====
